---- MODULE Spec2Model ----
(***************************************************************************)
(* GreenCare plant-health assistant (src/index.tsx): the App component's   *)
(* item collection and selection, the per-file pipeline compressImage ->   *)
(* analyzeItem, and the handlers processFiles, removeItem, select and      *)
(* deselect, as a state machine.                                           *)
(*                                                                         *)
(* JavaScript strings that the code inspects (media types, error messages, *)
(* generated ids) are sequences of one-character strings, so startsWith,   *)
(* includes, slice and substring are computed on them.  Text that is only  *)
(* stored or shown is a sequence of pieces: a literal is one piece.        *)
(* A nullable value is a sequence of length 0 (null) or 1 (the value).     *)
(***************************************************************************)
EXTENDS Integers, Sequences, FiniteSets, TLC

VARIABLES items, selectedId, pipes, last

vars == <<items, selectedId, pipes, last>>

(***************************************************************************)
(* Nullable values.                                                        *)
(***************************************************************************)
Null == <<>>

Some(x) == <<x>>

(***************************************************************************)
(* String.prototype operations on sequences of characters.                 *)
(***************************************************************************)
Min(a, b) == IF a <= b THEN a ELSE b

StartsWith(s, p) == Len(s) >= Len(p) /\ SubSeq(s, 1, Len(p)) = p

Includes(s, sub) ==
    \E i \in 1..(Len(s) - Len(sub) + 1) : SubSeq(s, i, i + Len(sub) - 1) = sub

\* s.slice(0, n)
Slice0(s, n) == SubSeq(s, 1, Min(n, Len(s)))

\* s.substring(k)
Substring(s, k) == SubSeq(s, k + 1, Len(s))

(***************************************************************************)
(* IEEE-754 double arithmetic of the resize step.  The 53-bit significand  *)
(* and one guard bit below it make 54 bits, kept as six digits of nine     *)
(* bits, most significant first, because the values exceed machine         *)
(* integers; the first digit may hold more than nine bits.                 *)
(***************************************************************************)
SigBits == 53

DigitBits == 9

Digits == 6

Radix == 2 ^ DigitBits

BitLen(n) == IF n = 0 THEN 0 ELSE CHOOSE k \in 1..30 : 2 ^ (k - 1) <= n /\ n < 2 ^ k

\* the shift t for which n * 2^t / w has a first digit of exactly nine bits
QuotShift(n, w) ==
    CHOOSE t \in 0..20 : LET v == (n * 2 ^ t) \div w
                         IN  2 ^ (DigitBits - 1) <= v /\ v < Radix

\* the next k digits of a long division by w that has left the remainder r
RECURSIVE QuotDigits(_, _, _)
QuotDigits(r, w, k) ==
    IF k = 0 THEN [digits |-> <<>>, rem |-> r]
    ELSE LET rest == QuotDigits((r * Radix) % w, w, k - 1)
         IN  [digits |-> <<(r * Radix) \div w>> \o rest.digits, rem |-> rest.rem]

\* digits + a, carried upward
RECURSIVE AddLow(_, _)
AddLow(digits, a) ==
    IF Len(digits) = 1 THEN <<digits[1] + a>>
    ELSE LET v == digits[Len(digits)] + a
         IN  Append(AddLow(SubSeq(digits, 1, Len(digits) - 1), v \div Radix), v % Radix)

\* digits * x + carry for a small integer x
RECURSIVE MulLow(_, _, _)
MulLow(digits, x, carry) ==
    IF Len(digits) = 1 THEN <<digits[1] * x + carry>>
    ELSE LET v == digits[Len(digits)] * x + carry
         IN  Append(MulLow(SubSeq(digits, 1, Len(digits) - 1), x, v \div Radix),
                    v % Radix)

\* Round the number to SigBits significant bits, to nearest, ties to even, by
\* clearing its low bits; sticky says that nonzero bits lie below the digits.
RoundNearestEven(digits, sticky) ==
    LET drop == BitLen(digits[1]) + DigitBits * (Digits - 1) - SigBits
        low  == digits[Digits - 1] * Radix + digits[Digits]
        kept == low \div 2 ^ drop
        half == (low \div 2 ^ (drop - 1)) % 2
        rest == sticky \/ low % 2 ^ (drop - 1) # 0
        up   == half = 1 /\ (rest \/ kept % 2 = 1)
        new  == (kept + (IF up THEN 1 ELSE 0)) * 2 ^ drop
    IN  IF drop <= 0 THEN digits
        ELSE AddLow(SubSeq(digits, 1, Digits - 2), new \div (Radix * Radix))
                \o <<(new \div Radix) % Radix, new % Radix>>

\* The double x * (n / w) for integers x >= 0 and 0 < n < w: the quotient is
\* rounded to a double first, then the product is.  The value is the number the
\* digits spell, divided by 2^(shift + DigitBits * (Digits - 1)).
DoubleMulDiv(x, n, w) ==
    LET t    == QuotShift(n, w)
        rest == QuotDigits((n * 2 ^ t) % w, w, Digits - 1)
        q    == RoundNearestEven(<<(n * 2 ^ t) \div w>> \o rest.digits, rest.rem # 0)
    IN  [digits |-> RoundNearestEven(MulLow(q, x, 0), FALSE), shift |-> t]

\* Assigning a non-negative double to an `unsigned long` attribute truncates it.
ToUnsignedLong(d) == d.digits[1] \div 2 ^ d.shift

(***************************************************************************)
(* Literals of the source.                                                 *)
(***************************************************************************)
ImagePrefix == <<"i", "m", "a", "g", "e", "/">>

PdfType == <<"a", "p", "p", "l", "i", "c", "a", "t", "i", "o", "n", "/", "p", "d", "f">>

ImageJpeg == <<"i", "m", "a", "g", "e", "/", "j", "p", "e", "g">>

ImagePng == <<"i", "m", "a", "g", "e", "/", "p", "n", "g">>

TextPlain == <<"t", "e", "x", "t", "/", "p", "l", "a", "i", "n">>

Marker403 == <<"4", "0", "3">>

Marker503 == <<"5", "0", "3">>

NoResponseMessage == <<"N", "o", " ", "r", "e", "s", "p", "o", "n", "s", "e", " ", "f", "r", "o", "m", " ", "A", "I">>

CompressionFailed == <<"Failed to process image.">>

DefaultError == <<"Failed to analyze. Please try again.">>

PermissionDenied == <<"Permission Denied: Please check API Key or Network.">>

ServiceUnavailable == <<"Service temporarily unavailable. Retrying might help.">>

MAX_WIDTH == 1024

MAX_HEIGHT == 1024

ExcerptLen == 50

\* `File ${file.name} is not supported. Please use JPG, PNG, or PDF.`
Notice(name) == <<"File ", name, " is not supported. Please use JPG, PNG, or PDF.">>

\* `Error: ${err.message.slice(0, 50)}...`
Excerpt(message) == <<"Error: ">> \o Slice0(message, ExcerptLen) \o <<"...">>

(***************************************************************************)
(* Inputs.  A file is its name, its declared media type and, for an image, *)
(* the pixel size the decoder will report.                                 *)
(***************************************************************************)
File(name, type, w, h) ==
    [name |-> name, type |-> type, width |-> w, height |-> h, obj |-> 0]

Leaf == File("leaf.png", ImagePng, 800, 600)

Report == File("report.pdf", PdfType, 0, 0)

Notes == File("notes.txt", TextPlain, 0, 0)

\* the number of files accepted in a run
MaxUploads == 2

\* the batches handed to the application: one image, one unsupported file,
\* an unsupported file before an image, two images
AppBatches == { <<Leaf>>, <<Notes>>, <<Notes, Leaf>>, <<Leaf, Leaf>> }

\* Math.random().toString(36): "0." and the base-36 digits of the fraction; the
\* digits after the fifth are the ones the id keeps, and there may be none.
RandomStrings ==
    { <<"0", ".">> \o <<"0", "0", "0", "0", "0">> \o tail : tail \in {<<>>, <<"k">>} }

Batches(files, maxLen) == UNION { [1..n -> files] : n \in 1..maxLen }

(***************************************************************************)
(* JSON.parse on the response texts the service is taken to return.        *)
(***************************************************************************)
HealthyText == "{\"overallStatus\":\"Healthy\",\"issues\":[],\"safetyTips\":[\"Wear gloves\"],\"followUp\":\"Water weekly\"}"

TruncatedText == "{\"overallStatus\":"

NullText == "null"

HealthyResult ==
    [overallStatus |-> "Healthy", issues |-> <<>>,
     safetyTips |-> <<"Wear gloves">>, followUp |-> "Water weekly"]

UnexpectedEnd == <<"U", "n", "e", "x", "p", "e", "c", "t", "e", "d", " ", "e", "n", "d", " ", "o", "f", " ", "J", "S", "O", "N", " ", "i", "n", "p", "u", "t">>

JSONParse(text) ==
    CASE text = HealthyText   -> [ok |-> TRUE, value |-> Some(HealthyResult), message |-> <<>>]
      [] text = NullText      -> [ok |-> TRUE, value |-> Null, message |-> <<>>]
      [] text = TruncatedText -> [ok |-> FALSE, value |-> Null, message |-> UnexpectedEnd]

\* response.text: absent, empty, or a text
AppTexts == {Some(HealthyText)}

\* err.message of a rejected call: absent or a string
AppMessages == {Some(<<"g", "o", "t", " ", "s", "t", "a", "t", "u", "s", ":", " ", "4", "0", "3">>)}

(***************************************************************************)
(* State.                                                                  *)
(*   items      the FileItem list (useState, line 42).  previewUrl is left *)
(*              out: it is display-only.  file.obj is the identity of the  *)
(*              File object, distinct for every accepted file.             *)
(*   selectedId the selection (line 43), nullable.                         *)
(*   pipes      one record per started async pipeline (lines 153-161), in  *)
(*              the order started: pipes[n] works on the File with obj n.  *)
(*              pc is where it is suspended: "read" (FileReader), "decode" *)
(*              (Image), "call" (generateContent), or "done"; id, file and *)
(*              payload are its local variables, null once out of scope;   *)
(*              calls counts the requests it has sent.                     *)
(*   last       history variable: the handler that ran last, with its      *)
(*              inputs (files, id, obj, msg), the notices it raised and,   *)
(*              for removeItem, the selection it found (sel).              *)
(***************************************************************************)
Event(op, files, id, obj, notices, sel, msg) ==
    [op |-> op, files |-> files, id |-> id, obj |-> obj, notices |-> notices,
     sel |-> sel, msg |-> msg]

Init ==
    /\ items = <<>>
    /\ selectedId = Null
    /\ pipes = <<>>
    /\ last = Event("init", <<>>, Null, 0, <<>>, Null, Null)

(***************************************************************************)
(* processFiles (lines 122-163).                                           *)
(***************************************************************************)
\* line 127: the condition under which a file is turned away
RejectedAlways(file) == ~StartsWith(file.type, ImagePrefix) \/ file.type # PdfType

Rejected(file) == ~StartsWith(file.type, ImagePrefix) /\ file.type # PdfType

Supported(file) == ~Rejected(file)

\* line 132: Math.random().toString(36).substring(7)
GenId(random) == Substring(random, 7)

\* lines 134-142
NewItem(file, id) ==
    [id |-> id, file |-> file, mimeType |-> file.type,
     loading |-> TRUE, result |-> Null, error |-> Null]

\* lines 153-155: the async callback runs compressImage up to its first
\* suspension, a FileReader reading the file (lines 66-73 and 77-79)
StartPipe(item) ==
    [pc |-> "read", id |-> Some(item.id), file |-> Some(item.file),
     payload |-> Null, calls |-> 0]

ProcessFilesKeepsSelection(files, randoms) ==
    LET accepted == SelectSeq(files, Supported)
        rejected == SelectSeq(files, Rejected)
        newItems == [k \in 1..Len(accepted) |->
                        NewItem([accepted[k] EXCEPT !.obj = Len(pipes) + k],
                                GenId(randoms[k]))]
    IN  /\ Len(pipes) + Len(accepted) <= MaxUploads
        /\ DOMAIN randoms = 1..Len(accepted)
        /\ items' = items \o newItems
        /\ selectedId' = IF Len(newItems) > 0 /\ selectedId = Null
                       THEN Some(newItems[1].id) ELSE selectedId
        /\ pipes' = pipes \o [k \in 1..Len(newItems) |-> StartPipe(newItems[k])]
        /\ last' = Event("processFiles", files, Null, 0,
                         [k \in 1..Len(rejected) |-> Notice(rejected[k].name)],
                         Null, Null)

ProcessFiles(files, randoms) ==
    LET accepted == SelectSeq(files, Supported)
        rejected == SelectSeq(files, Rejected)
        newItems == [k \in 1..Len(accepted) |->
                        NewItem([accepted[k] EXCEPT !.obj = Len(pipes) + k],
                                GenId(randoms[k]))]
    IN  /\ Len(pipes) + Len(accepted) <= MaxUploads
        /\ DOMAIN randoms = 1..Len(accepted)
        /\ items' = items \o newItems
        /\ selectedId' = IF Len(newItems) > 0 THEN Some(newItems[1].id) ELSE selectedId
        /\ pipes' = pipes \o [k \in 1..Len(newItems) |-> StartPipe(newItems[k])]
        /\ last' = Event("processFiles", files, Null, 0,
                         [k \in 1..Len(rejected) |-> Notice(rejected[k].name)],
                         Null, Null)

(***************************************************************************)
(* The list row's onClick (line 348), the back button (line 448) and       *)
(* removeItem (lines 291-300).                                             *)
(***************************************************************************)
SelectItem(i) ==
    /\ i \in DOMAIN items
    /\ selectedId' = Some(items[i].id)
    /\ UNCHANGED <<items, pipes>>
    /\ last' = Event("select", <<>>, Some(items[i].id), items[i].file.obj, <<>>,
                     Null, Null)

\* line 446: the button is rendered only when selectedId is truthy
Deselect ==
    /\ selectedId # Null
    /\ selectedId[1] # <<>>
    /\ selectedId' = Null
    /\ UNCHANGED <<items, pipes>>
    /\ last' = Event("deselect", <<>>, Null, 0, <<>>, Null, Null)

\* line 294: prev.filter((item) => item.id !== id)
RECURSIVE FilterOutId(_, _)
FilterOutId(s, id) ==
    IF s = <<>> THEN <<>>
    ELSE (IF Head(s).id # id THEN <<Head(s)>> ELSE <<>>) \o FilterOutId(Tail(s), id)

\* lines 295-297
SelectionKept(newItems, sel, id) == sel

SelectionAlwaysMoved(newItems, sel, id) ==
    IF Len(newItems) > 0 THEN Some(newItems[1].id) ELSE Null

SelectionAfterRemove(newItems, sel, id) ==
    IF sel = Some(id)
    THEN IF Len(newItems) > 0 THEN Some(newItems[1].id) ELSE Null
    ELSE sel

RemoveItemOnly(i) ==
    /\ i \in DOMAIN items
    /\ items' = FilterOutId(items, items[i].id)
    /\ last' = Event("removeItem", <<>>, Some(items[i].id), items[i].file.obj, <<>>,
                     selectedId, Null)
    /\ UNCHANGED <<selectedId, pipes>>

RemoveItem(i) ==
    /\ i \in DOMAIN items
    /\ LET id       == items[i].id
           newItems == FilterOutId(items, id)
       IN  /\ items' = newItems
           /\ selectedId' = SelectionAfterRemove(newItems, selectedId, id)
           /\ last' = Event("removeItem", <<>>, Some(id), items[i].file.obj, <<>>,
                            selectedId, Null)
    /\ UNCHANGED pipes

(***************************************************************************)
(* compressImage (lines 62-120).                                           *)
(***************************************************************************)
\* lines 92 and 97 with lines 102-103: the scaled side as the canvas holds it
Scaled(side, bound, longer) == ToUnsignedLong(DoubleMulDiv(side, bound, longer))

\* lines 86-103
CanvasSizeHalfBound(width, height) ==
    IF width > height
    THEN IF width > 512
         THEN [width |-> 512, height |-> Scaled(height, 512, width)]
         ELSE [width |-> width, height |-> height]
    ELSE IF height > 512
         THEN [width |-> Scaled(width, 512, height), height |-> 512]
         ELSE [width |-> width, height |-> height]

CanvasSize(width, height) ==
    IF width > height
    THEN IF width > MAX_WIDTH
         THEN [width |-> MAX_WIDTH, height |-> Scaled(height, MAX_WIDTH, width)]
         ELSE [width |-> width, height |-> height]
    ELSE IF height > MAX_HEIGHT
         THEN [width |-> Scaled(width, MAX_HEIGHT, height), height |-> MAX_HEIGHT]
         ELSE [width |-> width, height |-> height]

\* line 70: the file's bytes as read, under the file's own media type
PassThroughAsJpeg(file) ==
    [mimeType |-> ImageJpeg, encoded |-> FALSE, width |-> 0, height |-> 0]

PassThrough(file) ==
    [mimeType |-> file.type, encoded |-> FALSE, width |-> 0, height |-> 0]

\* lines 102-114: the canvas drawn at the computed size, encoded as JPEG
Recompressed(file) ==
    LET size == CanvasSize(file.width, file.height)
    IN  [mimeType |-> ImageJpeg, encoded |-> TRUE,
         width |-> size.width, height |-> size.height]

(***************************************************************************)
(* The writes into the collection (lines 159, 251-255 and 268-274).        *)
(***************************************************************************)
SetError(s, id, message) ==
    [k \in DOMAIN s |->
        IF s[k].id = id THEN [s[k] EXCEPT !.loading = FALSE, !.error = Some(message)]
        ELSE s[k]]

SetResult(s, id, resultData) ==
    [k \in DOMAIN s |->
        IF s[k].id = id THEN [s[k] EXCEPT !.loading = FALSE, !.result = resultData]
        ELSE s[k]]

\* lines 261-266; message is err.message, nullable
ErrorMessageFor503First(message) ==
    IF message = Null \/ message = Some(<<>>) THEN DefaultError
    ELSE IF Includes(message[1], Marker503) THEN ServiceUnavailable
    ELSE IF Includes(message[1], Marker403) THEN PermissionDenied
    ELSE Excerpt(message[1])

ErrorMessageFor(message) ==
    IF message = Null \/ message = Some(<<>>) THEN DefaultError
    ELSE IF Includes(message[1], Marker403) THEN PermissionDenied
    ELSE IF Includes(message[1], Marker503) THEN ServiceUnavailable
    ELSE Excerpt(message[1])

(***************************************************************************)
(* The steps of a pipeline (lines 153-161 around compressImage, then       *)
(* analyzeItem, lines 165-276).                                            *)
(***************************************************************************)
Step(op, k, message) == Event(op, <<>>, pipes[k].id, k, <<>>, Null, message)

\* line 156 into lines 166-167: analyzeItem issues the request and suspends
CallService(k, payload) ==
    pipes' = [pipes EXCEPT ![k].pc = "call", ![k].payload = Some(payload),
                           ![k].calls = @ + 1]

\* the pipeline has run to its end
Finish(k) ==
    pipes' = [pipes EXCEPT ![k].pc = "done", ![k].id = Null, ![k].file = Null,
                           ![k].payload = Null]

\* lines 157-160
CompressionErrorAsAnalysis(op, k) ==
    /\ items' = SetError(items, pipes[k].id[1], DefaultError)
    /\ Finish(k)
    /\ last' = Step(op, k, Null)
    /\ UNCHANGED selectedId

CompressionError(op, k) ==
    /\ items' = SetError(items, pipes[k].id[1], CompressionFailed)
    /\ Finish(k)
    /\ last' = Step(op, k, Null)
    /\ UNCHANGED selectedId

\* lines 259-275
AnalysisErrorRetried(op, k, message) ==
    IF pipes[k].calls < 2
    THEN /\ pipes' = [pipes EXCEPT ![k].calls = @ + 1]
         /\ last' = Step(op, k, message)
         /\ UNCHANGED <<items, selectedId>>
    ELSE /\ items' = SetError(items, pipes[k].id[1], ErrorMessageFor(message))
         /\ Finish(k)
         /\ last' = Step(op, k, message)
         /\ UNCHANGED selectedId

AnalysisError(op, k, message) ==
    /\ items' = SetError(items, pipes[k].id[1], ErrorMessageFor(message))
    /\ Finish(k)
    /\ last' = Step(op, k, message)
    /\ UNCHANGED selectedId

\* reader.onload: lines 67-71 for a non-image, lines 79-81 for an image
ReaderLoad(k) ==
    /\ k \in DOMAIN pipes
    /\ pipes[k].pc = "read"
    /\ IF ~StartsWith(pipes[k].file[1].type, ImagePrefix)
       THEN CallService(k, PassThrough(pipes[k].file[1]))
       ELSE pipes' = [pipes EXCEPT ![k].pc = "decode"]
    /\ last' = Step("readerLoad", k, Null)
    /\ UNCHANGED <<items, selectedId>>

\* reader.onerror: lines 72 and 118
ReaderError(k) ==
    /\ k \in DOMAIN pipes
    /\ pipes[k].pc = "read"
    /\ CompressionError("readerError", k)

\* img.onload with a 2d context: lines 82-115
ImageLoad(k) ==
    /\ k \in DOMAIN pipes
    /\ pipes[k].pc = "decode"
    /\ CallService(k, Recompressed(pipes[k].file[1]))
    /\ last' = Step("imageLoad", k, Null)
    /\ UNCHANGED <<items, selectedId>>

\* img.onload when getContext returns null: lines 104-108
ImageLoadNoContext(k) ==
    /\ k \in DOMAIN pipes
    /\ pipes[k].pc = "decode"
    /\ CompressionError("imageLoadNoContext", k)

\* img.onerror: line 116
ImageError(k) ==
    /\ k \in DOMAIN pipes
    /\ pipes[k].pc = "decode"
    /\ CompressionError("imageError", k)

\* generateContent resolves: lines 248-258; text is response.text, nullable
Respond(k, text) ==
    /\ k \in DOMAIN pipes
    /\ pipes[k].pc = "call"
    /\ IF text = Null \/ text = Some("")
       THEN AnalysisError("respond", k, Some(NoResponseMessage))
       ELSE LET parsed == JSONParse(text[1])
            IN  IF parsed.ok
                THEN /\ items' = SetResult(items, pipes[k].id[1], parsed.value)
                     /\ Finish(k)
                     /\ last' = Step("respond", k, Null)
                     /\ UNCHANGED selectedId
                ELSE AnalysisError("respond", k, Some(parsed.message))

\* generateContent rejects: lines 259-275; message is err.message, nullable
CallRejects(k, message) ==
    /\ k \in DOMAIN pipes
    /\ pipes[k].pc = "call"
    /\ AnalysisError("callRejects", k, message)

(***************************************************************************)
(* The application: any interleaving of the handlers and pipeline steps.   *)
(***************************************************************************)
Next ==
    \/ \E files \in AppBatches :
         \E randoms \in [1..Len(SelectSeq(files, Supported)) -> RandomStrings] :
            ProcessFiles(files, randoms)
    \/ \E i \in 1..MaxUploads : SelectItem(i)
    \/ Deselect
    \/ \E i \in 1..MaxUploads : RemoveItem(i)
    \/ \E k \in 1..MaxUploads : ReaderLoad(k)
    \/ \E k \in 1..MaxUploads : ReaderError(k)
    \/ \E k \in 1..MaxUploads : ImageLoad(k)
    \/ \E k \in 1..MaxUploads : ImageLoadNoContext(k)
    \/ \E k \in 1..MaxUploads : ImageError(k)
    \/ \E k \in 1..MaxUploads, text \in AppTexts : Respond(k, text)
    \/ \E k \in 1..MaxUploads, message \in AppMessages : CallRejects(k, message)

Spec == Init /\ [][Next]_vars

(***************************************************************************)
(* File intake alone: batches of every mix of media types, with select and *)
(* remove between them, while the pipelines stay suspended.                *)
(***************************************************************************)
Blank == File("README", <<>>, 0, 0)

Odd == File("form.pdfx", <<"a", "p", "p", "l", "i", "c", "a", "t", "i", "o", "n", "/", "p", "d", "f", "x">>, 0, 0)

IntakeFiles == {Leaf, Report, Blank, Odd}

\* the number of files in a batch
MaxBatch == 2

NextIntake ==
    \/ \E files \in Batches(IntakeFiles, MaxBatch) :
         \E randoms \in [1..Len(SelectSeq(files, Supported)) -> RandomStrings] :
            ProcessFiles(files, randoms)
    \/ \E i \in 1..MaxUploads : SelectItem(i)
    \/ \E i \in 1..MaxUploads : RemoveItem(i)

SpecIntake == Init /\ [][NextIntake]_vars

(***************************************************************************)
(* One file through its pipeline: images of many sizes, a PDF, and every   *)
(* kind of answer and failure of the service.                              *)
(***************************************************************************)
PipelineSides == {1, 561, 1024, 1025, 1122, 2000, 3000}

PipelineFiles ==
    { File("photo", type, w, h) :
        type \in {ImagePng, ImageJpeg}, w \in PipelineSides, h \in PipelineSides }
    \cup {Report}

PipelineTexts == {Null, Some(""), Some(HealthyText), Some(NullText), Some(TruncatedText)}

Pad(n) == [i \in 1..n |-> "x"]

Markers ==
    { <<>>, Marker403, Marker503, Marker403 \o Marker503, Marker503 \o Marker403,
      <<"4", "0">>, <<"4", "0", "4">> }

PipelineMessages ==
    {Null} \cup
    { Some(Pad(before) \o marker \o Pad(after)) :
        before \in {0, 48}, marker \in Markers, after \in {0, 2, 10} }

NextPipeline ==
    \/ /\ pipes = <<>>
       /\ \E file \in PipelineFiles, random \in RandomStrings :
            ProcessFiles(<<file>>, <<random>>)
    \/ ReaderLoad(1)
    \/ ReaderError(1)
    \/ ImageLoad(1)
    \/ ImageLoadNoContext(1)
    \/ ImageError(1)
    \/ \E text \in PipelineTexts : Respond(1, text)
    \/ \E message \in PipelineMessages : CallRejects(1, message)

SpecPipeline == Init /\ [][NextPipeline]_vars

(***************************************************************************)
(* The application under the assumption that every file read, image decode *)
(* and service call that is pending eventually completes or fails: each    *)
(* pipeline that can take a step eventually takes one.                     *)
(***************************************************************************)
LiveTexts == {Some(HealthyText), Some(NullText)}

\* the callbacks that resume pipeline k
PipeStep(k) ==
    \/ ReaderLoad(k)
    \/ ReaderError(k)
    \/ ImageLoad(k)
    \/ ImageLoadNoContext(k)
    \/ ImageError(k)
    \/ \E text \in LiveTexts : Respond(k, text)
    \/ \E message \in AppMessages : CallRejects(k, message)

NextLive ==
    \/ \E files \in AppBatches :
         \E randoms \in [1..Len(SelectSeq(files, Supported)) -> RandomStrings] :
            ProcessFiles(files, randoms)
    \/ \E i \in 1..MaxUploads : SelectItem(i)
    \/ Deselect
    \/ \E i \in 1..MaxUploads : RemoveItem(i)
    \/ \E k \in 1..MaxUploads : PipeStep(k)

SpecLive ==
    Init /\ [][NextLive]_vars /\ \A k \in 1..MaxUploads : WF_vars(PipeStep(k))

(***************************************************************************)
(* Properties.                                                             *)
(***************************************************************************)
\* the entries of s whose id is not id, in their order
Remaining(s, id) == SelectSeq(s, LAMBDA e : e.id # id)

\* a media type that starts with "image/" or equals "application/pdf"
ValidType(file) == StartsWith(file.type, ImagePrefix) \/ file.type = PdfType

InvalidType(file) == ~ValidType(file)

\* the File as it was handed over, without its object identity
Given(file) == [file EXCEPT !.obj = 0]

\* C1: a processFiles step on a batch with N files of a valid type and M others
\* appends exactly N entries after the existing ones, one per valid file in the
\* batch's order, each with loading = TRUE, result = null and error = null,
\* raises exactly M notices, one naming each other file, and makes no entry for
\* a file of another type.
C1_ProcessFilesAddsValidOnly ==
    [][ last'.op = "processFiles" =>
          LET valid   == SelectSeq(last'.files, ValidType)
              invalid == SelectSeq(last'.files, InvalidType)
          IN  /\ Len(items') = Len(items) + Len(valid)
              /\ SubSeq(items', 1, Len(items)) = items
              /\ \A k \in 1..Len(valid) :
                    LET e == items'[Len(items) + k]
                    IN  /\ Given(e.file) = valid[k]
                        /\ e.loading = TRUE
                        /\ e.result = Null
                        /\ e.error = Null
              /\ last'.notices = [k \in 1..Len(invalid) |-> Notice(invalid[k].name)]
      ]_vars

\* C1 witness: a batch of one valid and one other file was added behind an
\* existing entry, with one notice raised.
C1_Witness ==
    /\ last.op = "processFiles"
    /\ Len(last.files) = 2
    /\ \E k \in 1..2 : last.files[k].type = PdfType
    /\ \E k \in 1..2 : InvalidType(last.files[k])
    /\ Len(last.notices) = 1
    /\ Len(items) = 2
    /\ items[2].mimeType = PdfType
    /\ items[2].loading

Terminal(e) == ~e.loading /\ (e.result # Null \/ e.error # Null)

\* C4: once an entry is Succeeded or Failed, every step leaves it in the
\* collection with all its fields as they were, except the removeItem step made
\* for that very entry.
C4_TerminalIsFinal ==
    [][ \A i \in DOMAIN items :
          Terminal(items[i]) =>
             \/ \E j \in DOMAIN items' : items'[j] = items[i]
             \/ last'.op = "removeItem" /\ last'.obj = items[i].file.obj
      ]_vars

\* C5: when a pipeline finishes after the entry it was started for has been
\* removed, its write changes neither the collection nor the selection.
C5_LateWriteIsNoOp ==
    [][ \A k \in DOMAIN pipes :
          ( /\ pipes[k].pc # "done"
            /\ pipes'[k].pc = "done"
            /\ ~\E i \in DOMAIN items : items[i].file.obj = k )
          => (items' = items /\ selectedId' = selectedId)
      ]_vars

\* the three characters a, b, c occur next to each other in message
HasMarker(message, a, b, c) ==
    \E i \in 1..(Len(message) - 2) :
        message[i] = a /\ message[i + 1] = b /\ message[i + 2] = c

\* the message an entry is to show for a failure whose text is message
Categorized(message) ==
    IF HasMarker(message, "4", "0", "3") THEN PermissionDenied
    ELSE IF HasMarker(message, "5", "0", "3") THEN ServiceUnavailable
    ELSE <<"Error: ">> \o [i \in 1..Min(Len(message), 50) |-> message[i]] \o <<"...">>

\* C6: after an analysis that failed with a non-empty error message, the entry
\* is no longer loading and its error is the permission-denied text if the
\* message contains "403", else the unavailable text if it contains "503", else
\* "Error: ", the first 50 characters of the message and "...".
C6_ErrorCategory ==
    ( /\ last.op \in {"callRejects", "respond"}
      /\ last.msg # Null
      /\ last.msg # Some(<<>>) )
    => \A i \in DOMAIN items :
          /\ ~items[i].loading
          /\ items[i].error = Some(Categorized(last.msg[1]))

\* C6 witness: a call was rejected with a message of more than 50 characters
\* that holds neither marker, and the entry shows its first 50 characters.
C6_Witness ==
    /\ last.op = "callRejects"
    /\ last.msg # Null
    /\ Len(last.msg[1]) > ExcerptLen
    /\ ~Includes(last.msg[1], Marker403)
    /\ ~Includes(last.msg[1], Marker503)
    /\ items # <<>>
    /\ items[1].error = Some(<<"Error: ">> \o SubSeq(last.msg[1], 1, 50) \o <<"...">>)

\* out is side * 1024 / longer rounded to an integer, down or up
WithinRounding(out, side, longer) ==
    /\ out * longer > side * 1024 - longer
    /\ out * longer < side * 1024 + longer

\* C7: the payload of an image wider or taller than 1024 has 1024 as its longer
\* side, and its shorter side is the original shorter side times 1024 over the
\* original longer side, rounded to an integer.
C7_ScaledToBound ==
    \A k \in DOMAIN pipes :
        ( /\ pipes[k].pc = "call"
          /\ pipes[k].payload[1].encoded
          /\ (pipes[k].file[1].width > 1024 \/ pipes[k].file[1].height > 1024) )
        => LET f   == pipes[k].file[1]
               out == pipes[k].payload[1]
           IN  IF f.width > f.height
               THEN out.width = 1024 /\ WithinRounding(out.height, f.height, f.width)
               ELSE IF f.height > f.width
               THEN out.height = 1024 /\ WithinRounding(out.width, f.width, f.height)
               ELSE out.width = 1024 /\ out.height = 1024

\* C8: the payload of an image of at most 1024 by 1024 has the image's own
\* width and height and the media type image/jpeg, whatever the image's type.
C8_SmallImageKeepsSize ==
    \A k \in DOMAIN pipes :
        ( /\ pipes[k].pc = "call"
          /\ StartsWith(pipes[k].file[1].type, ImagePrefix)
          /\ pipes[k].file[1].width <= 1024
          /\ pipes[k].file[1].height <= 1024 )
        => /\ pipes[k].payload[1].width = pipes[k].file[1].width
           /\ pipes[k].payload[1].height = pipes[k].file[1].height
           /\ pipes[k].payload[1].mimeType = ImageJpeg

\* C8 witness: a PNG of 1024 by 561 was normalized to a JPEG of 1024 by 561.
C8_Witness ==
    \E k \in DOMAIN pipes :
        /\ pipes[k].pc = "call"
        /\ pipes[k].file[1].type = ImagePng
        /\ pipes[k].file[1].width = 1024
        /\ pipes[k].file[1].height = 561
        /\ pipes[k].payload[1].width = 1024
        /\ pipes[k].payload[1].height = 561
        /\ pipes[k].payload[1].mimeType = ImageJpeg

\* C9: the pipeline of an accepted file whose media type does not start with
\* "image/" never waits for an image decode, and its payload is the file as
\* read, under the file's declared media type.
C9_NonImagePassesThrough ==
    \A k \in DOMAIN pipes :
        (pipes[k].file # Null /\ ~StartsWith(pipes[k].file[1].type, ImagePrefix))
        => /\ pipes[k].pc # "decode"
           /\ pipes[k].pc = "call" =>
                 /\ pipes[k].payload[1].mimeType = pipes[k].file[1].type
                 /\ ~pipes[k].payload[1].encoded

\* C9 witness: a PDF was read and sent on as application/pdf.
C9_Witness ==
    \E k \in DOMAIN pipes :
        /\ pipes[k].pc = "call"
        /\ pipes[k].file[1].type = PdfType
        /\ pipes[k].payload[1].mimeType = PdfType
        /\ ~pipes[k].payload[1].encoded
        /\ last.op = "readerLoad"

\* C10: every entry is in exactly one of the three conditions: loading, error
\* set, result set.
C10_ExactlyOneSettled ==
    \A i \in DOMAIN items :
        \/ items[i].loading /\ items[i].error = Null /\ items[i].result = Null
        \/ ~items[i].loading /\ items[i].error # Null /\ items[i].result = Null
        \/ ~items[i].loading /\ items[i].error = Null /\ items[i].result # Null

\* C11: no two entries of the collection have the same id.
C11_UniqueIds ==
    \A i, j \in DOMAIN items : i # j => items[i].id # items[j].id

\* the step just taken ended the normalization of pipeline k with a payload
Normalized(k) ==
    /\ last'.obj = k
    /\ \/ last'.op = "imageLoad"
       \/ last'.op = "readerLoad" /\ pipes'[k].pc = "call"

\* C12: a pipeline's count of requests sent goes up by one in the step that
\* ends its normalization with a payload and in no other step, a failed call
\* included, and never exceeds one.
C12_AtMostOneCall ==
    [][ \A k \in DOMAIN pipes' :
          LET before == IF k \in DOMAIN pipes THEN pipes[k].calls ELSE 0
          IN  /\ pipes'[k].calls = before + (IF Normalized(k) THEN 1 ELSE 0)
              /\ pipes'[k].calls <= 1
      ]_vars

\* C12 witness: a pipeline's call was rejected and the pipeline has ended
\* having sent one request.
C12_Witness ==
    /\ last.op = "callRejects"
    /\ pipes[last.obj].pc = "done"
    /\ pipes[last.obj].calls = 1

\* the handlers that end a pipeline's normalization with a failure
NormalizationFailures == {"readerError", "imageError", "imageLoadNoContext"}

\* ev records a pipeline step that ended in a failure
IsFailure(ev) ==
    \/ ev.op \in NormalizationFailures
    \/ ev.op = "callRejects"
    \/ ev.op = "respond" /\ ev.msg # Null

\* ev records the step in which a pipeline ended
IsCompletion(ev) == IsFailure(ev) \/ ev.op = "respond"

\* the entries of s made for the File object obj
EntriesOf(s, obj) == { s[j] : j \in { n \in DOMAIN s : s[n].file.obj = obj } }

\* C13: a step in which the pipeline of one entry fails leaves the selection,
\* the length and order of the collection, every other entry and every other
\* pipeline as they were, and changes in the failed entry only loading, to
\* FALSE, and error, to a message.
C13_FailureIsScoped ==
    [][ IsFailure(last') =>
          /\ selectedId' = selectedId
          /\ Len(items') = Len(items)
          /\ \A i \in DOMAIN items :
                IF items[i].file.obj = last'.obj
                THEN /\ items'[i].error # Null
                     /\ items'[i] = [items[i] EXCEPT !.loading = FALSE,
                                                     !.error = items'[i].error]
                ELSE items'[i] = items[i]
          /\ \A k \in DOMAIN pipes : k # last'.obj => pipes'[k] = pipes[k]
      ]_vars

\* the error text an entry is to end with after the failure ev
ExpectedError(ev) ==
    IF ev.op \in NormalizationFailures THEN CompressionFailed
    ELSE Categorized(ev.msg[1])

\* C14: an entry is written only by the step that ends its own pipeline, and
\* that step leaves it Failed with that pipeline's error and no result, or
\* Succeeded with a result and no error; every other step leaves it as it is,
\* except the removeItem step made for it, which drops it.  So the entry ends
\* the same in every interleaving.
C14_OwnOutcomeOnly ==
    [][ \A i \in DOMAIN items :
          LET e     == items[i]
              after == EntriesOf(items', e.file.obj)
          IN  IF IsCompletion(last') /\ last'.obj = e.file.obj
              THEN \E f \in after :
                     /\ after = {f}
                     /\ f.id = e.id /\ f.file = e.file /\ f.mimeType = e.mimeType
                     /\ ~f.loading
                     /\ IF IsFailure(last')
                        THEN f.error = Some(ExpectedError(last')) /\ f.result = Null
                        ELSE f.error = Null /\ f.result # Null
              ELSE IF last'.op = "removeItem" /\ last'.obj = e.file.obj
              THEN after = {}
              ELSE after = {e}
      ]_vars

\* pipeline k has ended and the entry made for its file, if still in the
\* collection, is Succeeded or Failed
Settled(k) ==
    /\ k \in DOMAIN pipes
    /\ pipes[k].pc = "done"
    /\ \A e \in EntriesOf(items, k) : Terminal(e)

\* C15: every pipeline that was started eventually ends, whether or not its
\* entry was removed meanwhile, with the entry, if still in the collection,
\* Succeeded or Failed.
C15_EveryPipelineSettles ==
    \A k \in 1..MaxUploads : (k \in DOMAIN pipes) ~> Settled(k)

C17_SelectionInCollection ==
    selectedId # Null => \E i \in DOMAIN items : items[i].id = selectedId[1]

\* C17 witness: the selected entry was removed while another entry, with
\* another id, was left, and the selection is on an entry of the collection.
C17_Witness ==
    /\ last.op = "removeItem"
    /\ last.sel = last.id
    /\ selectedId # Null
    /\ selectedId # last.sel
    /\ \E i \in DOMAIN items : items[i].id = selectedId[1]
    /\ \E k \in DOMAIN pipes : pipes[k].pc = "done"

\* C18: a processFiles step with at least one file of a valid type sets the
\* selection to the id of the entry made for the first such file of the batch,
\* whatever was selected before; a processFiles step with none leaves the
\* collection and the selection as they were and starts no pipeline.
C18_ProcessFilesSelects ==
    [][ last'.op = "processFiles" =>
          LET valid == SelectSeq(last'.files, ValidType)
          IN  IF Len(valid) > 0
              THEN /\ Len(items') > Len(items)
                   /\ Given(items'[Len(items) + 1].file) = valid[1]
                   /\ selectedId' = Some(items'[Len(items) + 1].id)
              ELSE /\ items' = items
                   /\ selectedId' = selectedId
                   /\ pipes' = pipes
      ]_vars

\* C18 witness: with an entry already in the collection, a batch of an
\* unsupported file followed by a valid one was added, and the selection is
\* the new entry's id, which differs from the older entry's.
C18_Witness ==
    /\ last.op = "processFiles"
    /\ Len(last.files) = 2
    /\ InvalidType(last.files[1])
    /\ ValidType(last.files[2])
    /\ Len(items) = 2
    /\ items[1].id # items[2].id
    /\ selectedId = Some(items[2].id)

====
